---- MODULE Spec2Model ----
(***************************************************************************)
(* A model of scripts/parse_fit.py: the extraction of one running activity *)
(* from a decoded FIT file (parse_fit_file), the nearest-city resolution   *)
(* with its rounded-coordinate cache (find_nearest_city, city_lookup), the *)
(* driver loop of main, and the aggregations (build_daily, build_monthly,  *)
(* build_city_stats).                                                      *)
(*                                                                         *)
(* Number representation.  Python floats are modelled in fixed point:      *)
(*   coordinates in units of 1e-5 degree, distances of haversine_km in     *)
(*   centimetres, distanceM in metres, durationS and paceSecPerKm in       *)
(*   seconds, instants in epoch seconds.                                   *)
(* An optional or raw field value is a record [k, v]:                      *)
(*   k = "none"  Python None (the field is absent)                         *)
(*   k = "bad"   a value float() rejects (TypeError / ValueError)          *)
(*   k = "num"   a number, v in the fixed-point unit of the field          *)
(*   k = "int"   a coordinate delivered as a plain integer v (semicircles) *)
(***************************************************************************)
EXTENDS Integers, Sequences, FiniteSets, TLC

VARIABLES
    cities,        \* main: the city list load_cities returned (a sequence)
    no_city_lookup, \* main: args.no_city_lookup (cities stays None when set)
    max_city_km,   \* main: args.max_city_km
    city_cache,    \* main: city_cache, a function from rounded keys to lookup results
    fit_files,     \* main: the sorted list of input files still to be read by the loop
    idx,           \* main: number of files the loop has consumed
    activities,    \* main: the activities list
    last,          \* main: the value parse_fit_file returned in the latest loop turn
    pc,            \* main: "loop", "done"; "lookup" while city_lookup is driven directly
    outputs,       \* main: what the aggregation wrote and the count it printed
    query,         \* the arguments and the outcome of the latest direct city_lookup call
    searched       \* whether the latest city_lookup call ran find_nearest_city

vars == <<cities, no_city_lookup, max_city_km, city_cache, fit_files, idx, activities, last, pc,
          outputs, query, searched>>

\* ---------------------------------------------------------------- bounds
MaxCities == 2
MaxRecords == 2
MaxFiles == 3

\* ---------------------------------------------------------------- values
None == [k |-> "none", v |-> 0]
Bad == [k |-> "bad", v |-> 0]
Num(n) == [k |-> "num", v |-> n]
RawInt(n) == [k |-> "int", v |-> n]

IsNone(x) == x.k = "none"
\* Python truthiness of an optional float: None and 0.0 are falsy.
Truthy(x) == x.k = "num" /\ x.v # 0
\* `a or b` on optional floats
Or(a, b) == IF Truthy(a) THEN a ELSE b

\* The element of a one-element set.  The({body : x \in {e}}) is body with x
\* bound to the value of e, which is computed once.
The(S) == CHOOSE v \in S : TRUE

Abs(n) == IF n < 0 THEN -n ELSE n
Sgn(n) == IF n < 0 THEN -1 ELSE 1

\* float(value) inside try/except: None on failure
ToFloat(x) == IF x.k = "num" THEN x ELSE None

\* ---------------------------------------------------------------- coordinates
\* value * 180.0 / 2**31, the result in 1e-5 degree (floored towards zero).
\* A plain integer n gives n * 140625 / 2^24; the division is split so that
\* every intermediate stays below 2^31.  A scaled number v (1e-5 units)
\* gives v * 45 / 2^29.
semicircles_to_deg(value) ==
    IF value.k = "int"
    THEN LET a == Abs(value.v)
             q == a \div 16777216
             r == a % 16777216
             r1 == r \div 4096
             r0 == r % 4096
         IN Num(Sgn(value.v) * (q * 140625 + ((r1 * 140625 + ((r0 * 140625) \div 4096)) \div 4096)))
    ELSE Num(Sgn(value.v) * ((Abs(value.v) * 45) \div 536870912))

normalize_lat_lon(value) ==
    IF value.k = "none" THEN None
    ELSE IF value.k = "bad" THEN None
    ELSE IF value.k = "int"
         THEN IF Abs(value.v) > 180 THEN semicircles_to_deg(value) ELSE Num(value.v * 100000)
         ELSE IF Abs(value.v) > 18000000 THEN semicircles_to_deg(value) ELSE value

\* round(x, 3) of a coordinate in 1e-5 degree: the nearest 1e-3 degree.  A float
\* is never exactly halfway between two 3-decimal values; the coordinates of the
\* model are chosen off the halfway points (last two digits # 50).
round3(x) == LET a == Abs(x) IN Sgn(x) * ((a + 50) \div 100)

\* ---------------------------------------------------------------- cities
City(name, country, admin1, lat, lon) ==
    [city |-> name, country |-> country, admin1 |-> admin1, lat |-> lat, lon |-> lon]

Shanghai == City("Shanghai", "CN", "Shanghai", 3123040, 12147370)
Huangpu  == City("Huangpu", "CN", "Shanghai", 3123040, 12147370)
Pudong   == City("Shanghai", "CN", "Pudong", 3123041, 12147372)
Paris    == City("Paris", "FR", "Ile-de-France", 4885660, 235220)
Nameless == City("", "FR", "Ile-de-France", 4885660, 235220)

\* No city (Python None) and a found city
NoCity == <<>>
Some(c) == <<c>>

\* haversine_km tabulated, in centimetres, on the coordinates of the model:
\* r = 6371.0, a = sin^2(dphi/2) + cos(phi1) cos(phi2) sin^2(dlambda/2),
\* r * 2 * atan2(sqrt(a), sqrt(1 - a)), floored to 1e-5 km.
HaversineCm ==
    [p \in {<<0, 0>>} |->
        [c \in {<<3123040, 12147370>>} |-> 1295599165]
        @@ [c \in {<<3123041, 12147372>>} |-> 1295599313]
        @@ [c \in {<<4885660, 235220>>} |-> 543729459]]
    @@ [p \in {<<0, 12147370>>} |->
        [c \in {<<3123040, 12147370>>} |-> 347266203]
        @@ [c \in {<<3123041, 12147372>>} |-> 347266314]
        @@ [c \in {<<4885660, 235220>>} |-> 1208409784]]
    @@ [p \in {<<0, 12147372>>} |->
        [c \in {<<3123040, 12147370>>} |-> 347266203]
        @@ [c \in {<<3123041, 12147372>>} |-> 347266314]
        @@ [c \in {<<4885660, 235220>>} |-> 1208409919]]
    @@ [p \in {<<3123040, 0>>} |->
        [c \in {<<3123040, 12147370>>} |-> 1072856346]
        @@ [c \in {<<3123041, 12147372>>} |-> 1072856410]
        @@ [c \in {<<4885660, 235220>>} |-> 196989329]]
    @@ [p \in {<<3123040, 12147370>>} |->
        [c \in {<<3123040, 12147370>>} |-> 0]
        @@ [c \in {<<3123041, 12147372>>} |-> 220]
        @@ [c \in {<<4885660, 235220>>} |-> 926265809]]
    @@ [p \in {<<3123040, 12147372>>} |->
        [c \in {<<3123040, 12147370>>} |-> 190]
        @@ [c \in {<<3123041, 12147372>>} |-> 111]
        @@ [c \in {<<4885660, 235220>>} |-> 926265919]]
    @@ [p \in {<<3123041, 0>>} |->
        [c \in {<<3123040, 12147370>>} |-> 1072856270]
        @@ [c \in {<<3123041, 12147372>>} |-> 1072856334]
        @@ [c \in {<<4885660, 235220>>} |-> 196989218]]
    @@ [p \in {<<3123041, 12147370>>} |->
        [c \in {<<3123040, 12147370>>} |-> 111]
        @@ [c \in {<<3123041, 12147372>>} |-> 190]
        @@ [c \in {<<4885660, 235220>>} |-> 926265719]]
    @@ [p \in {<<3123041, 12147372>>} |->
        [c \in {<<3123040, 12147370>>} |-> 220]
        @@ [c \in {<<3123041, 12147372>>} |-> 0]
        @@ [c \in {<<4885660, 235220>>} |-> 926265829]]
    @@ [p \in {<<4885660, 235220>>} |->
        [c \in {<<3123040, 12147370>>} |-> 926265809]
        @@ [c \in {<<3123041, 12147372>>} |-> 926265829]
        @@ [c \in {<<4885660, 235220>>} |-> 0]]

haversine_km(lat1, lon1, lat2, lon2) == HaversineCm[<<lat1, lon1>>][<<lat2, lon2>>]

\* The for loop of find_nearest_city from city i on; best is an index into
\* cities (0: None), best_km a value record.
RECURSIVE nearest_scan(_, _, _, _, _, _)
nearest_scan(lat, lon, cs, i, best, best_km) ==
    IF i > Len(cs) THEN [best |-> best, best_km |-> best_km]
    ELSE LET d_km == haversine_km(lat, lon, cs[i].lat, cs[i].lon)
         IN IF IsNone(best_km) \/ d_km < best_km.v
            THEN nearest_scan(lat, lon, cs, i + 1, i, Num(d_km))
            ELSE nearest_scan(lat, lon, cs, i + 1, best, best_km)

\* The mutated scan: a later city at the same distance replaces the earlier one.
RECURSIVE nearest_scan_last(_, _, _, _, _, _)
nearest_scan_last(lat, lon, cs, i, best, best_km) ==
    IF i > Len(cs) THEN [best |-> best, best_km |-> best_km]
    ELSE LET d_km == haversine_km(lat, lon, cs[i].lat, cs[i].lon)
         IN IF IsNone(best_km) \/ d_km <= best_km.v
            THEN nearest_scan_last(lat, lon, cs, i + 1, i, Num(d_km))
            ELSE nearest_scan_last(lat, lon, cs, i + 1, best, best_km)

find_nearest_city_last(lat, lon, cs, max_km) ==
    The({IF s.best = 0 THEN <<NoCity, None>>
         ELSE IF ~IsNone(max_km) /\ ~IsNone(s.best_km) /\ s.best_km.v > max_km.v
              THEN <<NoCity, s.best_km>>
              ELSE <<Some(cs[s.best]), s.best_km>> :
            s \in {nearest_scan_last(lat, lon, cs, 1, 0, None)}})

\* find_nearest_city(lat, lon, cities, max_km): the pair (best, best_km)
find_nearest_city(lat, lon, cs, max_km) ==
    The({IF s.best = 0 THEN <<NoCity, None>>
         ELSE IF ~IsNone(max_km) /\ ~IsNone(s.best_km) /\ s.best_km.v > max_km.v
              THEN <<NoCity, s.best_km>>
              ELSE <<Some(cs[s.best]), s.best_km>> :
            s \in {nearest_scan(lat, lon, cs, 1, 0, None)}})

\* The mutated key: the coordinates as they are, not rounded
cache_key_exact(lat, lon) == <<lat.v, lon.v>>

\* key = (round(lat, 3), round(lon, 3))
cache_key(lat, lon) == <<round3(lat.v), round3(lon.v)>>

\* The mutated lookup: it searches and stores again on a cache hit.
city_lookup_nocache(lat, lon, cs, cache, max_km) ==
    IF IsNone(lat) \/ IsNone(lon)
    THEN [result |-> <<NoCity, None>>, cache |-> cache, searched |-> FALSE]
    ELSE LET key == cache_key(lat, lon)
         IN The({[result |-> result,
                  cache |-> [k \in DOMAIN cache \cup {key} |->
                                IF k = key THEN result ELSE cache[k]],
                  searched |-> TRUE] :
                    result \in {find_nearest_city(lat.v, lon.v, cs, max_km)}})

\* city_lookup(lat, lon, cities, cache, max_km): the result returned, the cache
\* afterwards, and whether find_nearest_city was called.
city_lookup(lat, lon, cs, cache, max_km) ==
    IF IsNone(lat) \/ IsNone(lon)
    THEN [result |-> <<NoCity, None>>, cache |-> cache, searched |-> FALSE]
    ELSE LET key == cache_key(lat, lon)
         IN IF key \in DOMAIN cache
            THEN [result |-> cache[key], cache |-> cache, searched |-> FALSE]
            ELSE The({[result |-> result,
                       cache |-> [k \in DOMAIN cache \cup {key} |->
                                     IF k = key THEN result ELSE cache[k]],
                       searched |-> TRUE] :
                        result \in {find_nearest_city(lat.v, lon.v, cs, max_km)}})

\* ---------------------------------------------------------------- time
\* A datetime: wall-clock seconds since 1970-01-01T00:00:00 on its own clock,
\* tz-aware with UTC offset off (seconds), or naive.
NoDt == [k |-> "none", v |-> 0, aware |-> FALSE, off |-> 0]
Dt(wall, off) == [k |-> "dt", v |-> wall, aware |-> TRUE, off |-> off]
NaiveDt(wall) == [k |-> "dt", v |-> wall, aware |-> FALSE, off |-> 0]

\* ensure_utc: a naive value is taken as UTC, an aware one converted to UTC
ensure_utc(dt_value) ==
    IF dt_value.k = "none" THEN NoDt
    ELSE IF ~dt_value.aware THEN Dt(dt_value.v, 0)
    ELSE Dt(dt_value.v - dt_value.off, 0)

\* The UTC offset astimezone() applies at a UTC instant: the run's local zone,
\* here US Eastern time between 2023-11-05T06:00Z and 2025-03-09T07:00Z
\* (EST, EDT from 2024-03-10T07:00Z, EST again from 2024-11-03T06:00Z).
local_utcoffset(epoch) ==
    IF epoch < 1710054000 THEN -18000
    ELSE IF epoch < 1730613600 THEN -14400
    ELSE -18000

\* An ISO-8601 string: the wall-clock part and the suffix ("Z" or "+hh:mm" / "-hh:mm")
IsoString(wall, off, z) == [wall |-> wall, off |-> off, z |-> z]

\* isoformat().replace("+00:00", "Z") of the UTC value
iso_utc(dt_value) == LET u == ensure_utc(dt_value) IN IsoString(u.v, 0, TRUE)

\* ensure_utc(dt).astimezone().isoformat()
iso_local(dt_value) ==
    LET u == ensure_utc(dt_value)
        off == local_utcoffset(u.v)
    IN IsoString(u.v + off, off, FALSE)

\* The order of ISO strings of one width as Python compares them: the wall-clock
\* text first, then the suffix, where "+.." < "-.." < "Z".
iso_key(str) ==
    <<str.wall,
      IF str.z THEN 20000
      ELSE IF str.off >= 0 THEN str.off \div 60
      ELSE 10000 + ((-str.off) \div 60)>>

\* date().isoformat() of a wall-clock value: <<year, month, day>> (the civil date
\* of the day number, proleptic Gregorian).
civil_date(wall) ==
    LET z == (wall \div 86400) + 719468
        era == z \div 146097
        doe == z - era * 146097
        yoe == (doe - (doe \div 1460) + (doe \div 36524) - (doe \div 146096)) \div 365
        doy == doe - (365 * yoe + (yoe \div 4) - (yoe \div 100))
        mp == (5 * doy + 2) \div 153
        d == doy - ((153 * mp + 2) \div 5) + 1
        m == IF mp < 10 THEN mp + 3 ELSE mp - 9
        y == yoe + era * 400 + (IF m <= 2 THEN 1 ELSE 0)
    IN <<y, m, d>>

\* ---------------------------------------------------------------- extraction
\* str(sport_value).lower() on the sport names of the model; None gives "unknown"
NoSport == [k |-> "none", s |-> ""]
Sport(name) == [k |-> "str", s |-> name]
lower(name) ==
    CASE name = "Running" -> "running"
      [] name = "RUNNING" -> "running"
      [] name = "Cycling" -> "cycling"
      [] OTHER -> name

\* A decoded file: its session messages and its record messages in file order,
\* and whether the decoder raises FitError while the file is read.
FitFile(sessions, records, fit_error) ==
    [sessions |-> sessions, records |-> records, fit_error |-> fit_error]

NoActivity == <<>>

\* The state of the loop over records before the first record
RecordPass0 ==
    [first_ts |-> NoDt, last_ts |-> NoDt, last_distance |-> None,
     hr_sum |-> 0, hr_count |-> 0, first_lat |-> None, first_lon |-> None]

\* One turn of `for record in records`
record_step(acc, record) ==
    LET ts == ensure_utc(record.timestamp)
        lat == normalize_lat_lon(record.position_lat)
        lon == normalize_lat_lon(record.position_long)
        take == (IsNone(acc.first_lat) \/ IsNone(acc.first_lon))
                /\ ~IsNone(lat) /\ ~IsNone(lon)
    IN [first_ts |-> IF ts.k # "none" /\ acc.first_ts.k = "none" THEN ts ELSE acc.first_ts,
        last_ts |-> IF ts.k # "none" THEN ts ELSE acc.last_ts,
        last_distance |-> IF ~IsNone(record.distance) /\ ~IsNone(ToFloat(record.distance))
                          THEN ToFloat(record.distance) ELSE acc.last_distance,
        hr_sum |-> IF ~IsNone(ToFloat(record.heart_rate))
                   THEN acc.hr_sum + record.heart_rate.v ELSE acc.hr_sum,
        hr_count |-> IF ~IsNone(ToFloat(record.heart_rate))
                     THEN acc.hr_count + 1 ELSE acc.hr_count,
        first_lat |-> IF take THEN lat ELSE acc.first_lat,
        first_lon |-> IF take THEN lon ELSE acc.first_lon]

RECURSIVE record_pass(_, _, _)
record_pass(records, i, acc) ==
    IF i > Len(records) THEN acc
    ELSE The({record_pass(records, i + 1, a) : a \in {record_step(acc, records[i])}})

\* duration_s / (distance_m / 1000.0) when distance_m and duration_s are truthy
\* and distance_m > 0
pace_of(distance_m, duration_s) ==
    IF Truthy(distance_m) /\ Truthy(duration_s) /\ distance_m.v > 0
    THEN Num((duration_s.v * 1000) \div distance_m.v)
    ELSE None

\* The start coordinate: normalize_lat_lon(session value) or first record value
start_coord(session_value, first_value) == Or(normalize_lat_lon(session_value), first_value)

\* session.get("total_distance"), else last_distance, then float() or None
distance_of(session, last_distance) ==
    LET distance_m == IF IsNone(session.total_distance) THEN last_distance
                      ELSE session.total_distance
    IN IF IsNone(distance_m) THEN None ELSE ToFloat(distance_m)

\* session.get("total_timer_time"), else last_ts - first_ts, then float() or None
duration_of(session, first_ts, last_ts) ==
    LET duration_s == IF IsNone(session.total_timer_time)
                         /\ first_ts.k # "none" /\ last_ts.k # "none"
                      THEN Num(last_ts.v - first_ts.v)
                      ELSE session.total_timer_time
    IN IF IsNone(duration_s) THEN None ELSE ToFloat(duration_s)

\* session.get("avg_heart_rate"), else hr_sum / hr_count, then float() or None
avg_hr_of(session, hr_sum, hr_count) ==
    LET avg_hr == IF IsNone(session.avg_heart_rate) /\ hr_count > 0
                  THEN Num(hr_sum \div hr_count)
                  ELSE session.avg_heart_rate
    IN IF IsNone(avg_hr) THEN None ELSE ToFloat(avg_hr)

\* The mutated choice: the first session message read is kept
session_of_first(file) == file.sessions[1]

\* The session message the frame loop leaves in `session`: the last one read
session_of(file) == file.sessions[Len(file.sessions)]

\* str(sport_value).lower(), "unknown" for None
sport_of(session) ==
    IF session.sport.k # "none" THEN lower(session.sport.s) ELSE "unknown"

\* The gate of parse_fit_file before the record loop: whether it goes on
passes_gate(file) ==
    /\ ~file.fit_error
    /\ Len(file.sessions) > 0
    /\ LET session == session_of(file)
       IN /\ sport_of(session) = "running"
          /\ (session.start_time.k # "none" \/ session.timestamp.k # "none")

\* The values parse_fit_file derives after the record loop (lines 171-203)
derived(session, acc) ==
    The({[distance_m |-> d.distance_m, duration_s |-> d.duration_s,
          avg_hr |-> avg_hr_of(session, acc.hr_sum, acc.hr_count),
          start_lat |-> start_coord(session.start_position_lat, acc.first_lat),
          start_lon |-> start_coord(session.start_position_long, acc.first_lon),
          pace_sec_per_km |-> pace_of(d.distance_m, d.duration_s)] :
            d \in {[distance_m |-> distance_of(session, acc.last_distance),
                    duration_s |-> duration_of(session, acc.first_ts, acc.last_ts)]}})

\* The dict parse_fit_file returns (lines 205-234); city is the city found or NoCity
activity_of(stem, session, start_time, d, city) ==
    [id |-> <<stem, start_time.v>>,
     sourceFile |-> <<stem, ".fit">>,
     sport |-> sport_of(session),
     startTime |-> iso_local(start_time),
     startTimeUtc |-> iso_utc(start_time),
     date |-> civil_date(start_time.v + local_utcoffset(start_time.v)),
     distanceM |-> d.distance_m,
     durationS |-> d.duration_s,
     paceSecPerKm |-> d.pace_sec_per_km,
     avgHr |-> d.avg_hr,
     lat |-> d.start_lat,
     lon |-> d.start_lon,
     city |-> IF city # NoCity /\ city[1].city # "" THEN city[1].city ELSE "unknown",
     country |-> IF city # NoCity THEN <<city[1].country>> ELSE <<>>,
     admin1 |-> IF city # NoCity THEN <<city[1].admin1>> ELSE <<>>]

\* parse_fit_file(path, cities, city_cache, max_city_km), path given by its stem;
\* cs is NoCity when city lookup is off (cities is None), Some(list) otherwise.
\* The result: the activity (NoActivity for None) and the cache afterwards.
parse_fit_file(stem, file, cs, cache, max_km) ==
    IF ~passes_gate(file) THEN [activity |-> NoActivity, cache |-> cache]
    ELSE
    LET session == session_of(file)
        start_time == ensure_utc(IF session.start_time.k # "none"
                                 THEN session.start_time ELSE session.timestamp)
    IN The({The({[activity |-> <<activity_of(stem, session, start_time, d, looked.result[1])>>,
                  cache |-> looked.cache] :
                    looked \in {IF cs = NoCity
                                THEN [result |-> <<NoCity, None>>, cache |-> cache,
                                      searched |-> FALSE]
                                ELSE city_lookup(d.start_lat, d.start_lon, cs[1], cache,
                                                 max_km)}}) :
               d \in {derived(session, record_pass(file.records, 1, RecordPass0))}})

\* ---------------------------------------------------------------- sorting
\* Lexicographic order on integer tuples of one length (Python tuple comparison)
RECURSIVE tuple_less(_, _)
tuple_less(a, b) ==
    IF Len(a) = 0 THEN FALSE
    ELSE IF Head(a) # Head(b) THEN Head(a) < Head(b)
    ELSE tuple_less(Tail(a), Tail(b))

\* list.sort(key=..., reverse=...): a stable sort.  pairs are [key, item] in the
\* list's order; each is put behind every element that does not follow it.
RECURSIVE insert_sorted(_, _, _)
insert_sorted(sorted, e, reverse) ==
    IF Len(sorted) = 0 THEN <<e>>
    ELSE IF (IF reverse THEN tuple_less(Head(sorted).key, e.key)
             ELSE tuple_less(e.key, Head(sorted).key))
         THEN <<e>> \o sorted
         ELSE <<Head(sorted)>> \o insert_sorted(Tail(sorted), e, reverse)

RECURSIVE sort_pairs(_, _, _, _)
sort_pairs(pairs, i, sorted, reverse) ==
    IF i > Len(pairs) THEN sorted
    ELSE The({sort_pairs(pairs, i + 1, s, reverse) :
                 s \in {insert_sorted(sorted, pairs[i], reverse)}})

Items(pairs) == [i \in 1..Len(pairs) |-> pairs[i].item]

\* pairs sorted, the items alone
sort_by(pairs, reverse) ==
    The({The({Items(s) : s \in {sort_pairs(ps, 1, <<>>, reverse)}}) : ps \in {pairs}})

\* activities.sort(key=lambda item: item["startTime"])
sort_activities(acts) ==
    The({sort_by(pairs, FALSE) :
            pairs \in {[i \in 1..Len(acts) |->
                          [key |-> iso_key(acts[i].startTime), item |-> acts[i]]]}})

\* ---------------------------------------------------------------- aggregation
PACE_BIN_SEC == 15
HR_BIN_BPM == 5
DIST_BIN_M == 1000

\* `x or 0.0` of an optional float
OrZero(x) == IF Truthy(x) THEN x.v ELSE 0

\* The position of the entry with this key in a dict kept in insertion order; 0: absent
IndexOf(entries, key) ==
    IF \E i \in 1..Len(entries) : entries[i].key = key
    THEN CHOOSE i \in 1..Len(entries) : entries[i].key = key
    ELSE 0

\* The dict with entry stored at position i, or appended when i = 0 (a new key)
Put(entries, i, entry) ==
    IF i = 0 THEN Append(entries, entry) ELSE [entries EXCEPT ![i] = entry]

\* The digest build_daily appends to a day's activities
digest(activity) ==
    [id |-> activity.id, startTime |-> activity.startTime,
     startTimeUtc |-> activity.startTimeUtc, distanceM |-> activity.distanceM,
     durationS |-> activity.durationS, paceSecPerKm |-> activity.paceSecPerKm,
     avgHr |-> activity.avgHr]

\* The first loop of build_daily from activity i on; daily is the dict in insertion order
RECURSIVE daily_pass(_, _, _)
daily_pass(acts, i, daily) ==
    IF i > Len(acts) THEN daily
    ELSE LET activity == acts[i]
             at == IndexOf(daily, activity.date)
             entry == IF at = 0
                      THEN [key |-> activity.date, date |-> activity.date, distanceM |-> 0,
                            durationS |-> 0, activities |-> <<>>]
                      ELSE daily[at]
         IN The({daily_pass(acts, i + 1, d) :
                    d \in {Put(daily, at,
                              [entry EXCEPT !.distanceM = @ + OrZero(activity.distanceM),
                                            !.durationS = @ + OrZero(activity.durationS),
                                            !.activities = Append(@, digest(activity))])}})

\* entry["activities"].sort(key=lambda item: item.get("startTimeUtc") or item["startTime"]);
\* startTimeUtc is a non-empty string in every activity parse_fit_file builds.
sort_day_activities(items) ==
    The({sort_by(pairs, FALSE) :
            pairs \in {[i \in 1..Len(items) |->
                          [key |-> iso_key(items[i].startTimeUtc), item |-> items[i]]]}})

\* The mutated build_daily: the list is left in insertion order
DailyEntry(e, day_activities) ==
    [date |-> e.date, distanceM |-> e.distanceM, durationS |-> e.durationS,
     activities |-> day_activities]

\* The mutated build_daily: the list is left in insertion order
build_daily_unsorted(acts) ==
    The({[i \in 1..Len(daily) |-> DailyEntry(daily[i], daily[i].activities)] :
            daily \in {daily_pass(acts, 1, <<>>)}})

build_daily(acts) ==
    The({The({[i \in 1..Len(daily_list) |->
                 DailyEntry(daily_list[i], sort_day_activities(daily_list[i].activities))] :
                 daily_list \in {sort_by([i \in 1..Len(daily) |->
                                            [key |-> daily[i].date, item |-> daily[i]]],
                                         FALSE)}}) :
            daily \in {daily_pass(acts, 1, <<>>)}})

RECURSIVE SumField(_, _)
SumDistance(entries) == SumField(entries, 1)
SumField(entries, i) ==
    IF i > Len(entries) THEN 0 ELSE entries[i].distanceM + SumField(entries, i + 1)

build_summary(daily_list) ==
    LET total_days == Len(daily_list)
        total_distance == SumDistance(daily_list)
    IN [totalDays |-> total_days,
        totalDistanceM |-> total_distance,
        avgDistancePerDayM |-> IF total_days # 0 THEN total_distance \div total_days ELSE 0]

\* The loop of build_monthly from day i on; the key is (int(year), int(month))
\* of date.split("-")
RECURSIVE monthly_pass(_, _, _)
monthly_pass(daily_list, i, monthly) ==
    IF i > Len(daily_list) THEN monthly
    ELSE LET day == daily_list[i]
             key == <<day.date[1], day.date[2]>>
             at == IndexOf(monthly, key)
             entry == IF at = 0
                      THEN [key |-> key, year |-> key[1], month |-> key[2],
                            distanceM |-> 0, durationS |-> 0, days |-> 0]
                      ELSE monthly[at]
         IN The({monthly_pass(daily_list, i + 1, m) :
                    m \in {Put(monthly, at,
                              [entry EXCEPT !.distanceM = @ + day.distanceM,
                                            !.durationS = @ + day.durationS,
                                            !.days = @ + 1])}})

MonthlyEntry(e) ==
    [year |-> e.year, month |-> e.month, distanceM |-> e.distanceM,
     durationS |-> e.durationS, days |-> e.days]

\* The mutated build_monthly: grouped by the month alone
RECURSIVE monthly_pass_by_month(_, _, _)
monthly_pass_by_month(daily_list, i, monthly) ==
    IF i > Len(daily_list) THEN monthly
    ELSE LET day == daily_list[i]
             key == <<day.date[2]>>
             at == IndexOf(monthly, key)
             entry == IF at = 0
                      THEN [key |-> key, year |-> day.date[1], month |-> day.date[2],
                            distanceM |-> 0, durationS |-> 0, days |-> 0]
                      ELSE monthly[at]
         IN The({monthly_pass_by_month(daily_list, i + 1, m) :
                    m \in {Put(monthly, at,
                              [entry EXCEPT !.distanceM = @ + day.distanceM,
                                            !.durationS = @ + day.durationS,
                                            !.days = @ + 1])}})

build_monthly_by_month(daily_list) ==
    The({sort_by([i \in 1..Len(monthly) |->
                    [key |-> <<monthly[i].year, monthly[i].month>>,
                     item |-> MonthlyEntry(monthly[i])]], FALSE) :
            monthly \in {monthly_pass_by_month(daily_list, 1, <<>>)}})

build_monthly(daily_list) ==
    The({sort_by([i \in 1..Len(monthly) |->
                    [key |-> <<monthly[i].year, monthly[i].month>>,
                     item |-> MonthlyEntry(monthly[i])]], FALSE) :
            monthly \in {monthly_pass(daily_list, 1, <<>>)}})

\* The first loop of build_city_stats from activity i on
RECURSIVE city_pass(_, _, _)
city_pass(acts, i, stats) ==
    IF i > Len(acts) THEN stats
    ELSE LET activity == acts[i]
             city == IF activity.city # "" THEN activity.city ELSE "unknown"
             key == <<city, activity.country, activity.admin1>>
             at == IndexOf(stats, key)
             entry == IF at = 0
                      THEN [key |-> key, city |-> key[1], country |-> key[2],
                            admin1 |-> key[3], runs |-> 0, distanceM |-> 0, durationS |-> 0]
                      ELSE stats[at]
         IN IF city = "unknown" THEN city_pass(acts, i + 1, stats)
            ELSE The({city_pass(acts, i + 1, st) :
                        st \in {Put(stats, at,
                                   [entry EXCEPT !.runs = @ + 1,
                                                 !.distanceM = @ + OrZero(activity.distanceM),
                                                 !.durationS = @ + OrZero(activity.durationS)])}})

CityResult(entry) ==
    [city |-> entry.city, country |-> entry.country, admin1 |-> entry.admin1,
     runs |-> entry.runs, distanceM |-> entry.distanceM,
     avgPaceSecPerKm |-> IF entry.distanceM > 0 /\ entry.durationS > 0
                         THEN Num((entry.durationS * 1000) \div entry.distanceM)
                         ELSE None]

\* The mutated build_city_stats: sorted ascending (reverse=True left out)
build_city_stats_ascending(acts) ==
    The({sort_by([i \in 1..Len(stats) |->
                    [key |-> <<stats[i].distanceM>>, item |-> CityResult(stats[i])]], FALSE) :
            stats \in {city_pass(acts, 1, <<>>)}})

build_city_stats(acts) ==
    The({sort_by([i \in 1..Len(stats) |->
                    [key |-> <<stats[i].distanceM>>, item |-> CityResult(stats[i])]], TRUE) :
            stats \in {city_pass(acts, 1, <<>>)}})

\* The mutated add_bin: the bin start is rounded up, not down
add_bin_ceil(bin_map, value, distance_m, bin_size) ==
    IF IsNone(value) THEN bin_map
    ELSE LET start == ((value.v + bin_size - 1) \div bin_size) * bin_size
             at == IndexOf(bin_map, start)
             entry == IF at = 0
                      THEN [key |-> start, start |-> start, end |-> start + bin_size,
                            count |-> 0, distanceM |-> 0]
                      ELSE bin_map[at]
         IN Put(bin_map, at,
                [entry EXCEPT !.count = @ + 1, !.distanceM = @ + OrZero(distance_m)])

\* add_bin(bin_map, value, distance_m, bin_size); bin_map in insertion order
add_bin(bin_map, value, distance_m, bin_size) ==
    IF IsNone(value) THEN bin_map
    ELSE LET start == (value.v \div bin_size) * bin_size
             at == IndexOf(bin_map, start)
             entry == IF at = 0
                      THEN [key |-> start, start |-> start, end |-> start + bin_size,
                            count |-> 0, distanceM |-> 0]
                      ELSE bin_map[at]
         IN Put(bin_map, at,
                [entry EXCEPT !.count = @ + 1, !.distanceM = @ + OrZero(distance_m)])

\* The loop of build_distributions from activity i on
RECURSIVE bins_pass(_, _, _)
bins_pass(acts, i, bins) ==
    IF i > Len(acts) THEN bins
    ELSE LET distance_m == acts[i].distanceM
         IN The({bins_pass(acts, i + 1, b) :
                    b \in {[pace |-> add_bin(bins.pace, acts[i].paceSecPerKm, distance_m,
                                             PACE_BIN_SEC),
                            hr |-> add_bin(bins.hr, acts[i].avgHr, distance_m, HR_BIN_BPM),
                            distance |-> IF ~IsNone(distance_m)
                                         THEN add_bin(bins.distance, distance_m, distance_m,
                                                      DIST_BIN_M)
                                         ELSE bins.distance]}})

to_list(bin_map) ==
    sort_by([i \in 1..Len(bin_map) |->
               [key |-> <<bin_map[i].start>>,
                item |-> [start |-> bin_map[i].start, end |-> bin_map[i].end,
                          count |-> bin_map[i].count,
                          distanceM |-> bin_map[i].distanceM]]], FALSE)

build_distributions(acts) ==
    The({[paceSecPerKm |-> [binSize |-> PACE_BIN_SEC, bins |-> to_list(bins.pace)],
          avgHr |-> [binSize |-> HR_BIN_BPM, bins |-> to_list(bins.hr)],
          distanceM |-> [binSize |-> DIST_BIN_M, bins |-> to_list(bins.distance)]] :
            bins \in {bins_pass(acts, 1, [pace |-> <<>>, hr |-> <<>>, distance |-> <<>>])}})

\* ---------------------------------------------------------------- main
\* One turn of `for path in fit_files` on file i: parse_fit_file, then
\* `continue` on None or activities.append(activity).
loop_turn(st, i, file, cs, max_km) ==
    The({[activities |-> IF r.activity = NoActivity THEN st.activities
                         ELSE Append(st.activities, r.activity[1]),
          cache |-> r.cache,
          last |-> r.activity] :
            r \in {parse_fit_file(i, file, cs, st.cache, max_km)}})

\* The mutated loop: a file that yields None ends the loop (break for continue)
next_index_break(i, n, activity) == IF activity = NoActivity THEN n ELSE i + 1

\* The for loop's next position after the turn on file i + 1 of n
next_index(i, n, activity) == i + 1

\* The whole loop over files i+1.. from state st
RECURSIVE run_loop(_, _, _, _, _)
run_loop(files, i, st, cs, max_km) ==
    IF i >= Len(files) THEN st
    ELSE The({run_loop(files, next_index(i, Len(files), nxt.last), nxt, cs, max_km) :
                 nxt \in {loop_turn(st, i + 1, files[i + 1], cs, max_km)}})

NoOutputs ==
    [activities |-> <<>>, daily |-> <<>>,
     summary |-> [totalDays |-> 0, totalDistanceM |-> 0, avgDistancePerDayM |-> 0],
     monthly |-> <<>>, city_stats |-> <<>>,
     distributions |-> [paceSecPerKm |-> [binSize |-> 0, bins |-> <<>>],
                        avgHr |-> [binSize |-> 0, bins |-> <<>>],
                        distanceM |-> [binSize |-> 0, bins |-> <<>>]],
     count |-> 0]

\* The five builds on an activity list, the six documents written and the
\* count printed.
views(acts) ==
    The({[activities |-> acts,
          daily |-> daily_list,
          summary |-> build_summary(daily_list),
          monthly |-> build_monthly(daily_list),
          city_stats |-> build_city_stats(acts),
          distributions |-> build_distributions(acts),
          count |-> Len(acts)] :
            daily_list \in {build_daily(acts)}})

\* main after the loop: the sort, then the builds on the sorted list
aggregate(acts) ==
    The({views(sorted) : sorted \in {sort_activities(acts)}})

\* ---------------------------------------------------------------- input sets
\* Bounded sequences over S
SeqUpTo(S, n) == UNION {[1..m -> S] : m \in 0..n}

EmptyCache == [k \in {} |-> <<NoCity, None>>]

GeoCities == {Shanghai, Huangpu, Paris}
CityLists == SeqUpTo(GeoCities, MaxCities)
\* --max-city-km (default 100.0), in centimetres; None is accepted by find_nearest_city
MaxKms == {None, Num(10000000)}
QueryLats == {None, Num(0), Num(3123040), Num(3123041)}
QueryLons == {None, Num(0), Num(12147370), Num(12147372)}

NoQuery == [calls |-> 0, lat |-> None, lon |-> None, result |-> <<NoCity, None>>]

\* ---------------------------------------------------------------- geocoder
InitGeo ==
    /\ cities \in CityLists
    /\ no_city_lookup = FALSE
    /\ max_city_km \in MaxKms
    /\ city_cache = EmptyCache
    /\ fit_files = <<>>
    /\ idx = 0
    /\ activities = <<>>
    /\ last = NoActivity
    /\ pc = "lookup"
    /\ outputs = NoOutputs
    /\ query = NoQuery
    /\ searched = FALSE

\* One call city_lookup(lat, lon, cities, city_cache, max_city_km)
Lookup(lat, lon) ==
    /\ pc = "lookup"
    /\ \E r \in {city_lookup(lat, lon, cities, city_cache, max_city_km)} :
          /\ city_cache' = r.cache
          /\ searched' = r.searched
          /\ query' = [calls |-> 1, lat |-> lat, lon |-> lon, result |-> r.result]
    /\ UNCHANGED <<cities, no_city_lookup, max_city_km, fit_files, idx, activities, last,
                   pc, outputs>>

NextGeo == \E lat \in QueryLats, lon \in QueryLons : Lookup(lat, lon)

SpecGeo == InitGeo /\ [][NextGeo]_vars

\* ---------------------------------------------------------------- driver
Session(sport, start_time, timestamp, total_distance, total_timer_time, avg_heart_rate, start_position_lat, start_position_long) ==
    [sport |-> sport, start_time |-> start_time, timestamp |-> timestamp,
     total_distance |-> total_distance, total_timer_time |-> total_timer_time,
     avg_heart_rate |-> avg_heart_rate, start_position_lat |-> start_position_lat,
     start_position_long |-> start_position_long]

Record(timestamp, distance, heart_rate, position_lat, position_long) ==
    [timestamp |-> timestamp, distance |-> distance, heart_rate |-> heart_rate,
     position_lat |-> position_lat, position_long |-> position_long]

\* Instants: 2024-11-03T05:30Z (01:30 EDT) and 06:10Z (01:10 EST, the same local
\* date after the clocks went back), 2024-11-20T12:00Z, 2024-12-01T03:00Z
\* (2024-11-30 local), 2023-11-20T12:00Z.
StartA == Dt(1730611800, 0)
StartB == Dt(1730614200, 0)
StartC == Dt(1732104000, 0)
StartD == Dt(1733022000, 0)
StartE == Dt(1700481600, 0)

\* Start positions: Shanghai's, Pudong's (the same rounded key) and Paris's
\* coordinates.  372593364 and 1449237989 semicircles are 31.23041 and 121.47372
\* degrees.
PosShanghai == <<Num(3123040), Num(12147370)>>
PosPudong == <<RawInt(372593364), RawInt(1449237989)>>
PosParis == <<Num(4885660), Num(235220)>>
PosNone == <<None, None>>

\* The files of the extraction runs: one family per group of fields, the other
\* fields at a fixed value.
GateSessions ==
    {Session(sport, st, ts, Num(5000), Num(1500), hr, None, None) :
        sport \in {NoSport, Sport("running"), Sport("Running"), Sport("cycling")},
        st \in {NoDt, StartA}, ts \in {NoDt, NaiveDt(1733022000)},
        hr \in {None, Num(150)}}
GateFiles ==
    {FitFile(ss, <<>>, err) : ss \in SeqUpTo(GateSessions, 2), err \in BOOLEAN}

MetricSessions ==
    {Session(Sport("running"), StartA, NoDt, d, t, None, None, None) :
        d \in {None, Bad, Num(0), Num(5000), Num(-5)},
        t \in {None, Bad, Num(0), Num(1500)}}
MetricRecords ==
    {Record(ts, d, None, None, None) :
        ts \in {NoDt, StartA, Dt(1730613000, 0)}, d \in {None, Bad, Num(3000)}}
MetricFiles ==
    {FitFile(<<s>>, rs, FALSE) : s \in MetricSessions, rs \in SeqUpTo(MetricRecords, MaxRecords)}

SessionLats == {None, Bad, Num(0), Num(3123040), RawInt(372593364)}
SessionLons == {None, Bad, Num(0), Num(12147370), RawInt(1449237989)}
PositionSessions ==
    {Session(Sport("running"), StartA, NoDt, Num(5000), Num(1500), None, lat, lon) :
        lat \in SessionLats, lon \in SessionLons}
PositionRecords ==
    {Record(NoDt, None, Num(140), lat, lon) :
        lat \in {None, Num(0), Num(3123041)}, lon \in {None, Num(12147372)}}
PositionFiles ==
    {FitFile(<<s>>, rs, FALSE) :
        s \in PositionSessions, rs \in SeqUpTo(PositionRecords, MaxRecords)}

ExtractFiles == GateFiles \cup MetricFiles \cup PositionFiles

\* The files of the driver runs: a decode failure, no session message, another
\* sport, no start time, and two running activities.
RunSession(start, metrics, pos) ==
    Session(Sport("running"), start, NoDt, metrics[1], metrics[2], None, pos[1], pos[2])
MainFiles ==
    {FitFile(<<RunSession(StartA, <<Num(5000), Num(1500)>>, PosShanghai)>>, <<>>, TRUE),
     FitFile(<<>>, <<Record(StartA, Num(3000), Num(140), None, None)>>, FALSE),
     FitFile(<<Session(Sport("cycling"), StartA, NoDt, Num(20000), Num(3600), None, None, None)>>,
             <<>>, FALSE),
     FitFile(<<Session(Sport("running"), NoDt, NoDt, Num(5000), Num(1500), None, None, None)>>,
             <<>>, FALSE),
     FitFile(<<RunSession(StartB, <<Num(5000), Num(1500)>>, PosShanghai)>>, <<>>, FALSE),
     FitFile(<<Session(Sport("Running"), StartA, NoDt, None, None, None, None, None)>>,
             <<Record(StartA, Num(0), Num(140), Num(3123041), Num(12147372)),
               Record(Dt(1730613000, 0), Num(3000), Num(150), None, None)>>, FALSE)}

\* The files of the aggregation runs: running activities over five start
\* instants, and over four start positions and two distance/duration pairs.
AggFiles ==
    {FitFile(<<RunSession(start, metrics, PosShanghai)>>, <<>>, FALSE) :
        start \in {StartA, StartB, StartC, StartD, StartE},
        metrics \in {<<Num(5000), Num(1500)>>}}
    \cup
    {FitFile(<<RunSession(StartA, metrics, pos)>>, <<>>, FALSE) :
        metrics \in {<<Num(3000), Num(900)>>, <<None, None>>},
        pos \in {PosShanghai, PosPudong, PosParis, PosNone}}

\* cities as parse_fit_file gets it: None when city lookup is off
CitiesArg == IF no_city_lookup THEN NoCity ELSE Some(cities)

\* main up to the loop, with the fit files found and the arguments given
InitMain(files, citylists, flags) ==
    /\ fit_files \in files
    /\ cities \in citylists
    /\ no_city_lookup \in flags
    /\ max_city_km = Num(10000000)
    /\ city_cache = EmptyCache
    /\ idx = 0
    /\ activities = <<>>
    /\ last = NoActivity
    /\ pc = "loop"
    /\ outputs = NoOutputs
    /\ query = NoQuery
    /\ searched = FALSE

\* One turn of the loop of main (lines 425-429)
ParseStep ==
    /\ pc = "loop"
    /\ idx < Len(fit_files)
    /\ \E nxt \in {loop_turn([activities |-> activities, cache |-> city_cache, last |-> last],
                               idx + 1, fit_files[idx + 1], CitiesArg, max_city_km)} :
          /\ activities' = nxt.activities
          /\ city_cache' = nxt.cache
          /\ last' = nxt.last
          /\ idx' = next_index(idx, Len(fit_files), nxt.last)
    /\ UNCHANGED <<cities, no_city_lookup, max_city_km, fit_files, pc, outputs, query, searched>>

\* main after the loop (lines 431-445)
Finish ==
    /\ pc = "loop"
    /\ idx >= Len(fit_files)
    /\ \E out \in {aggregate(activities)} :
          /\ outputs' = out
          /\ activities' = out.activities
    /\ pc' = "done"
    /\ UNCHANGED <<cities, no_city_lookup, max_city_km, city_cache, fit_files, idx, last,
                   query, searched>>

Next == ParseStep \/ Finish

\* The driver on one to MaxFiles files
Init ==
    InitMain(SeqUpTo(MainFiles, MaxFiles) \ {<<>>},
             {<<Shanghai, Pudong, Paris>>, <<Nameless, Shanghai>>}, BOOLEAN)

Spec == Init /\ [][Next]_vars

\* The driver on a single file, over the extraction families
InitExtract ==
    InitMain({<<f>> : f \in ExtractFiles}, {<<Shanghai, Pudong, Paris>>}, {FALSE})

SpecExtract == InitExtract /\ [][Next]_vars

\* main when the loop has ended (line 430), with what the loop left
InitAgg ==
    /\ fit_files \in SeqUpTo(AggFiles, MaxFiles) \ {<<>>}
    /\ cities = <<Shanghai, Pudong, Paris>>
    /\ no_city_lookup = FALSE
    /\ max_city_km = Num(10000000)
    /\ idx = Len(fit_files)
    /\ \E st \in {run_loop(fit_files, 0,
                             [activities |-> <<>>, cache |-> EmptyCache, last |-> NoActivity],
                             Some(cities), max_city_km)} :
          /\ activities = st.activities
          /\ city_cache = st.cache
          /\ last = st.last
    /\ pc = "loop"
    /\ outputs = NoOutputs
    /\ query = NoQuery
    /\ searched = FALSE

\* The build functions applied to an activity list in any order: the list as
\* the loop left it, in file order
BuildViews ==
    /\ pc = "loop"
    /\ idx >= Len(fit_files)
    /\ \E out \in {views(activities)} : outputs' = out
    /\ pc' = "built"
    /\ UNCHANGED <<cities, no_city_lookup, max_city_km, city_cache, fit_files, idx,
                   activities, last, query, searched>>

NextAgg == Finish \/ BuildViews

SpecAgg == InitAgg /\ [][NextAgg]_vars

\* The files of the distribution runs: running activities without a position,
\* over distances (absent, zero, negative, two in one 1000 m bin), durations
\* and average heart rates (absent, zero, two in one 5 bpm bin).  5000 m in
\* 1235 s is a pace of 247 s/km.
DistMetrics ==
    {<<Num(5000), Num(1235), Num(150)>>, <<Num(5000), Num(1500), Num(152)>>,
     <<Num(5600), Num(1400), None>>, <<None, Num(1500), Num(147)>>,
     <<Num(0), Num(1500), Num(0)>>, <<Num(-5), Num(1500), None>>,
     <<Num(3000), Num(900), Num(147)>>}
DistFiles ==
    {FitFile(<<Session(Sport("running"), StartA, NoDt, m[1], m[2], m[3], None, None)>>,
             <<>>, FALSE) : m \in DistMetrics}

\* main when the loop has ended, on the distribution files
InitDist ==
    /\ fit_files \in SeqUpTo(DistFiles, MaxFiles) \ {<<>>}
    /\ cities = <<Shanghai, Pudong, Paris>>
    /\ no_city_lookup = FALSE
    /\ max_city_km = Num(10000000)
    /\ idx = Len(fit_files)
    /\ \E st \in {run_loop(fit_files, 0,
                             [activities |-> <<>>, cache |-> EmptyCache, last |-> NoActivity],
                             Some(cities), max_city_km)} :
          /\ activities = st.activities
          /\ city_cache = st.cache
          /\ last = st.last
    /\ pc = "loop"
    /\ outputs = NoOutputs
    /\ query = NoQuery
    /\ searched = FALSE

SpecDist == InitDist /\ [][NextAgg]_vars

\* ---------------------------------------------------------------- claims: extraction
\* The file the latest loop turn read, its session message (the last one in the
\* file) and its records
LastFile == fit_files[idx]
LastSession == LastFile.sessions[Len(LastFile.sessions)]
LastRecords == LastFile.records
Parsed == idx >= 1 /\ last # NoActivity

\* C1: in every activity extracted, paceSecPerKm is present exactly when
\* distanceM and durationS are both present and distanceM > 0.
C1_PaceIffDistanceAndDuration ==
    Parsed =>
        (~IsNone(last[1].paceSecPerKm)
            <=> (/\ ~IsNone(last[1].distanceM)
                 /\ ~IsNone(last[1].durationS)
                 /\ last[1].distanceM.v > 0))

\* The records whose position_lat and position_long both normalize to a number
ValidPositions ==
    {i \in 1..Len(LastRecords) :
        /\ ~IsNone(normalize_lat_lon(LastRecords[i].position_lat))
        /\ ~IsNone(normalize_lat_lon(LastRecords[i].position_long))}

\* C2: when both session start coordinates convert to numbers, lat and lon are
\* the normalized session values; otherwise, when a record carries a valid
\* pair, lat and lon are both those of the first such record.
C2_StartCoordinatesFromOneSource ==
    Parsed =>
        LET slat == normalize_lat_lon(LastSession.start_position_lat)
            slon == normalize_lat_lon(LastSession.start_position_long)
        IN IF ~IsNone(slat) /\ ~IsNone(slon)
           THEN last[1].lat = slat /\ last[1].lon = slon
           ELSE ValidPositions # {} =>
                    LET i == CHOOSE i \in ValidPositions : \A j \in ValidPositions : i <= j
                    IN /\ last[1].lat = normalize_lat_lon(LastRecords[i].position_lat)
                       /\ last[1].lon = normalize_lat_lon(LastRecords[i].position_long)

\* The records whose distance converts to a number
NumericDistances == {i \in 1..Len(LastRecords) : LastRecords[i].distance.k = "num"}

\* C3: distanceM is session.total_distance when that converts to a number;
\* otherwise the distance of the last record whose distance converts to a
\* number; otherwise absent.
C3_DistanceFallbackChain ==
    Parsed =>
        last[1].distanceM =
            IF LastSession.total_distance.k = "num" THEN LastSession.total_distance
            ELSE IF NumericDistances # {}
                 THEN LastRecords[CHOOSE i \in NumericDistances :
                                     \A j \in NumericDistances : j <= i].distance
                 ELSE None

\* Whether the file's last session message is a running activity with a start
\* time or a timestamp
RunningNames == {"running", "Running", "RUNNING"}
Extractable(file) ==
    /\ Len(file.sessions) > 0
    /\ LET session == file.sessions[Len(file.sessions)]
       IN /\ session.sport.k = "str" /\ session.sport.s \in RunningNames
          /\ (session.start_time.k = "dt" \/ session.timestamp.k = "dt")

\* The UTC epoch of the start of a session: start_time, else timestamp
StartEpoch(session) ==
    LET t == IF session.start_time.k = "dt" THEN session.start_time ELSE session.timestamp
    IN IF t.aware THEN t.v - t.off ELSE t.v

\* C6: parse_fit_file returns None when the file has no session message, when
\* the sport of its last session message is not "running" in any letter case,
\* or when that message has neither start_time nor timestamp; an activity it
\* returns has sport "running" and its id, startTime and startTimeUtc are those
\* of the start of the last session message.
C6_GateAndOutputGuarantee ==
    idx >= 1 =>
        /\ ~Extractable(LastFile) => last = NoActivity
        /\ last # NoActivity =>
              /\ last[1].sport = "running"
              /\ last[1].id = <<idx, StartEpoch(LastSession)>>
              /\ last[1].startTimeUtc = IsoString(StartEpoch(LastSession), 0, TRUE)
              /\ last[1].startTime.wall - last[1].startTime.off = StartEpoch(LastSession)
              /\ ~last[1].startTime.z

\* C6 witness: an activity extracted from a file with two session messages, the
\* first of which is not a running activity and starts at another time.
C6_Witness ==
    /\ Parsed
    /\ Len(LastFile.sessions) = 2
    /\ LastFile.sessions[1].sport = Sport("cycling")
    /\ LastFile.sessions[1].start_time.k = "dt"
    /\ LastSession.start_time.k = "none"
    /\ last[1].id = <<1, 1733022000>>

\* ---------------------------------------------------------------- claims: driver
\* The files among the first n that yield an activity
Extracted(n) ==
    {i \in 1..n : ~fit_files[i].fit_error /\ Extractable(fit_files[i])}

\* C7: whatever files fail, the loop goes through all files in order: while it
\* runs, the activities are those of the extractable files among the files
\* read so far, one each, in file order; when main ends every file has been
\* read, the activities list holds exactly one activity per extractable file
\* and none of another file, and the count printed is their number.
C7_BatchSurvivesFailures ==
    /\ pc = "loop" =>
          /\ idx <= Len(fit_files)
          /\ Len(activities) = Cardinality(Extracted(idx))
          /\ {activities[k].sourceFile[1] : k \in 1..Len(activities)} = Extracted(idx)
          /\ \A k \in 1..(Len(activities) - 1) :
                activities[k].sourceFile[1] < activities[k + 1].sourceFile[1]
    /\ pc = "done" =>
          /\ idx = Len(fit_files)
          /\ Len(activities) = Cardinality(Extracted(Len(fit_files)))
          /\ {activities[k].sourceFile[1] : k \in 1..Len(activities)}
                = Extracted(Len(fit_files))
          /\ outputs.activities = activities
          /\ outputs.count = Cardinality(Extracted(Len(fit_files)))

\* C7 witness: main has ended on three files, the first failing to decode and
\* the second without a session message, and the third is in the activities.
C7_Witness ==
    /\ pc = "done"
    /\ Len(fit_files) = 3
    /\ fit_files[1].fit_error
    /\ Len(fit_files[2].sessions) = 0
    /\ Len(activities) = 1
    /\ activities[1].sourceFile = <<3, ".fit">>
    /\ outputs.count = 1

\* ---------------------------------------------------------------- claims: aggregation
RECURSIVE SumOver(_, _)
SumOver(f, S) ==
    IF S = {} THEN 0
    ELSE LET x == CHOOSE x \in S : TRUE IN f[x] + SumOver(f, S \ {x})

\* An optional number, absent counting as 0
ValueOrZero(x) == IF x.k = "num" THEN x.v ELSE 0

\* Dates as "YYYY-MM-DD" strings compare
DateBefore(a, b) ==
    \/ a[1] < b[1]
    \/ a[1] = b[1] /\ a[2] < b[2]
    \/ a[1] = b[1] /\ a[2] = b[2] /\ a[3] < b[3]

\* The activities of the sorted list that start on a date
OnDate(date) == {j \in 1..Len(outputs.activities) : outputs.activities[j].date = date}

\* C8: the daily list has one entry per distinct activity date, in strictly
\* increasing order of date; an entry's distanceM and durationS are the sums
\* over the activities of its date, an absent value counting as 0; an entry
\* lists the activities of its date in ascending order of startTimeUtc.
C8_DailyGroupsSumsAndOrder ==
    pc \in {"done", "built"} =>
        LET acts == outputs.activities
            daily == outputs.daily
        IN /\ {daily[i].date : i \in 1..Len(daily)} = {acts[j].date : j \in 1..Len(acts)}
           /\ \A i \in 1..(Len(daily) - 1) : DateBefore(daily[i].date, daily[i + 1].date)
           /\ \A i \in 1..Len(daily) :
                 /\ daily[i].distanceM =
                       SumOver([j \in 1..Len(acts) |-> ValueOrZero(acts[j].distanceM)],
                               OnDate(daily[i].date))
                 /\ daily[i].durationS =
                       SumOver([j \in 1..Len(acts) |-> ValueOrZero(acts[j].durationS)],
                               OnDate(daily[i].date))
                 /\ Len(daily[i].activities) = Cardinality(OnDate(daily[i].date))
                 /\ {daily[i].activities[k].id : k \in 1..Len(daily[i].activities)}
                       = {acts[j].id : j \in OnDate(daily[i].date)}
                 /\ \A k \in 1..(Len(daily[i].activities) - 1) :
                       daily[i].activities[k].startTimeUtc.wall
                          <= daily[i].activities[k + 1].startTimeUtc.wall

\* C8 witness: build_daily on a list whose last activity is of an earlier date
\* than its first: that earlier day holds two activities whose order by
\* startTimeUtc is the reverse of their order by local startTime, one of them
\* without a distance.
C8_Witness ==
    /\ pc = "built"
    /\ Len(outputs.activities) = 3
    /\ DateBefore(outputs.activities[3].date, outputs.activities[1].date)
    /\ Len(outputs.daily) = 2
    /\ Len(outputs.daily[1].activities) = 2
    /\ outputs.daily[1].activities[1].startTime.wall
          > outputs.daily[1].activities[2].startTime.wall
    /\ IsNone(outputs.daily[1].activities[1].distanceM)
    /\ outputs.daily[1].distanceM = 5000

\* The daily entries of a (year, month)
InMonth(ym) ==
    {i \in 1..Len(outputs.daily) :
        <<outputs.daily[i].date[1], outputs.daily[i].date[2]>> = ym}

\* C9: the monthly list has one entry per distinct (year, month) of the daily
\* dates, in strictly increasing order of (year, month); an entry's days is the
\* number of daily entries of its month, its distanceM and durationS their sums.
C9_MonthlyGroupsSumsAndOrder ==
    pc \in {"done", "built"} =>
        LET daily == outputs.daily
            monthly == outputs.monthly
        IN /\ {<<monthly[i].year, monthly[i].month>> : i \in 1..Len(monthly)}
                 = {<<daily[j].date[1], daily[j].date[2]>> : j \in 1..Len(daily)}
           /\ \A i \in 1..(Len(monthly) - 1) :
                 \/ monthly[i].year < monthly[i + 1].year
                 \/ /\ monthly[i].year = monthly[i + 1].year
                    /\ monthly[i].month < monthly[i + 1].month
           /\ \A i \in 1..Len(monthly) :
                 LET days == InMonth(<<monthly[i].year, monthly[i].month>>)
                 IN /\ monthly[i].days = Cardinality(days)
                    /\ monthly[i].distanceM =
                          SumOver([j \in 1..Len(daily) |-> daily[j].distanceM], days)
                    /\ monthly[i].durationS =
                          SumOver([j \in 1..Len(daily) |-> daily[j].durationS], days)
           /\ SumOver([i \in 1..Len(monthly) |-> monthly[i].distanceM], 1..Len(monthly))
                 = SumOver([j \in 1..Len(daily) |-> daily[j].distanceM], 1..Len(daily))

\* C9 witness: days of November 2023 and of November 2024, the latter with two
\* daily entries.
C9_Witness ==
    /\ pc = "done"
    /\ Len(outputs.monthly) = 2
    /\ outputs.monthly[1].year = 2023 /\ outputs.monthly[1].month = 11
    /\ outputs.monthly[2].year = 2024 /\ outputs.monthly[2].month = 11
    /\ outputs.monthly[2].days = 2
    /\ outputs.monthly[2].distanceM > 0

\* The activities of the sorted list with a known city, and those of a key
Known == {j \in 1..Len(outputs.activities) : outputs.activities[j].city # "unknown"}
CityKey(a) == <<a.city, a.country, a.admin1>>
WithKey(key) == {j \in Known : CityKey(outputs.activities[j]) = key}

\* C10: the city statistics hold no entry for "unknown", one entry per distinct
\* (city, country, admin1) of the activities with a known city, each with the
\* number of runs of its key; the runs add up to the number of activities with
\* a known city; the entries are in descending order of distanceM.
C10_CityStatsKeysRunsAndOrder ==
    pc \in {"done", "built"} =>
        LET acts == outputs.activities
            stats == outputs.city_stats
        IN /\ \A i \in 1..Len(stats) : stats[i].city # "unknown"
           /\ {CityKey(stats[i]) : i \in 1..Len(stats)} = {CityKey(acts[j]) : j \in Known}
           /\ Len(stats) = Cardinality({CityKey(acts[j]) : j \in Known})
           /\ \A i \in 1..Len(stats) :
                 /\ stats[i].runs = Cardinality(WithKey(CityKey(stats[i])))
                 /\ stats[i].distanceM =
                       SumOver([j \in 1..Len(acts) |-> ValueOrZero(acts[j].distanceM)],
                               WithKey(CityKey(stats[i])))
           /\ SumOver([i \in 1..Len(stats) |-> stats[i].runs], 1..Len(stats))
                 = Cardinality(Known)
           /\ Cardinality(Known) <= Len(acts)
           /\ \A i \in 1..(Len(stats) - 1) : stats[i].distanceM >= stats[i + 1].distanceM

\* C10 witness: two cities with different distances, the farther-run first, and
\* an activity without a city that no entry counts.
C10_Witness ==
    /\ pc = "done"
    /\ Len(outputs.activities) = 3
    /\ Cardinality(Known) = 2
    /\ Len(outputs.city_stats) = 2
    /\ outputs.city_stats[1].distanceM > outputs.city_stats[2].distanceM
    /\ outputs.city_stats[2].distanceM > 0

\* The activities of the sorted list whose metric is present and falls in a bin
InBin(metric, bin) ==
    {j \in DOMAIN metric :
        metric[j].k = "num" /\ bin.start <= metric[j].v /\ metric[j].v < bin.end}

\* One histogram against the metric of each activity
HistogramOk(hist, metric, size) ==
    LET bins == hist.bins
        present == {j \in DOMAIN metric : metric[j].k = "num"}
        distances == [j \in 1..Len(outputs.activities) |->
                         ValueOrZero(outputs.activities[j].distanceM)]
    IN /\ hist.binSize = size
       /\ \A j \in present :
             Cardinality({i \in 1..Len(bins) : j \in InBin(metric, bins[i])}) = 1
       /\ \A i \in 1..Len(bins) :
             /\ bins[i].start % size = 0
             /\ bins[i].end = bins[i].start + size
             /\ bins[i].count > 0
             /\ bins[i].count = Cardinality(InBin(metric, bins[i]))
             /\ bins[i].distanceM = SumOver(distances, InBin(metric, bins[i]))
       /\ SumOver([i \in 1..Len(bins) |-> bins[i].count], 1..Len(bins))
             = Cardinality(present)
       /\ \A i \in 1..(Len(bins) - 1) : bins[i].start < bins[i + 1].start

\* C11: in each histogram of build_distributions (pace by 15, heart rate by 5,
\* distance by 1000) every activity whose metric is present is counted in
\* exactly one bin, the one starting at floor(v / binSize) * binSize with
\* start <= v < end = start + binSize; the counts add up to the number of
\* activities with the metric; a bin's distanceM is the sum of the known
\* distances of the activities counted in it; no bin has count 0; the bins are
\* in ascending order of start.
C11_HistogramBins ==
    pc \in {"done", "built"} =>
        LET acts == outputs.activities
        IN /\ HistogramOk(outputs.distributions.paceSecPerKm,
                          [j \in 1..Len(acts) |-> acts[j].paceSecPerKm], 15)
           /\ HistogramOk(outputs.distributions.avgHr,
                          [j \in 1..Len(acts) |-> acts[j].avgHr], 5)
           /\ HistogramOk(outputs.distributions.distanceM,
                          [j \in 1..Len(acts) |-> acts[j].distanceM], 1000)

\* C11 witness: build_distributions on three activities, of pace 300, of pace
\* 247 and without distance but with a heart rate: the pace bins are [240,255)
\* then [300,315), and the heart-rate bin of the third holds no distance.
C11_Witness ==
    /\ pc = "built"
    /\ Len(outputs.activities) = 3
    /\ outputs.activities[1].paceSecPerKm = Num(300)
    /\ outputs.activities[2].paceSecPerKm = Num(247)
    /\ IsNone(outputs.activities[3].distanceM)
    /\ outputs.activities[3].avgHr = Num(147)
    /\ outputs.distributions.paceSecPerKm.bins
          = <<[start |-> 240, end |-> 255, count |-> 1, distanceM |-> 5000],
              [start |-> 300, end |-> 315, count |-> 1, distanceM |-> 5000]>>
    /\ outputs.distributions.avgHr.bins
          = <<[start |-> 145, end |-> 150, count |-> 1, distanceM |-> 0],
              [start |-> 150, end |-> 155, count |-> 2, distanceM |-> 10000]>>

\* ---------------------------------------------------------------- claims: city resolution
\* The activities that have start coordinates
Located ==
    {k \in 1..Len(activities) :
        ~IsNone(activities[k].lat) /\ ~IsNone(activities[k].lon)}

\* The city, country and admin1 an activity carries, and those a search result gives
ResolvedFields(k) == <<activities[k].city, activities[k].country, activities[k].admin1>>
FieldsOf(found) ==
    IF found = NoCity THEN <<"unknown", <<>>, <<>>>>
    ELSE <<IF found[1].city # "" THEN found[1].city ELSE "unknown",
           <<found[1].country>>, <<found[1].admin1>>>>

\* find_nearest_city, uncached, at the exact start coordinates of activity k
UncachedAt(k) ==
    find_nearest_city(activities[k].lat.v, activities[k].lon.v, cities, max_city_km)[1]

\* The first activity processed whose start coordinates round to the key of k's
SameKey(j, k) ==
    /\ round3(activities[j].lat.v) = round3(activities[k].lat.v)
    /\ round3(activities[j].lon.v) = round3(activities[k].lon.v)
FirstOfKey(k) ==
    CHOOSE j \in Located :
        /\ SameKey(j, k)
        /\ \A i \in Located :
              SameKey(i, k) => activities[j].sourceFile[1] <= activities[i].sourceFile[1]

\* C12 as stated: the city, country and admin1 of every activity with start
\* coordinates are those of an uncached find_nearest_city at its own exact
\* coordinates, whatever was looked up before it.
C12_CityIsUncachedNearest ==
    ~no_city_lookup =>
        \A k \in Located : ResolvedFields(k) = FieldsOf(UncachedAt(k))

\* C12 amended: the city, country and admin1 of every activity with start
\* coordinates are those of an uncached find_nearest_city at the start
\* coordinates of the first activity processed in the run whose coordinates
\* round to the same 3-decimal key (its own when it is the first of its key).
C12_CityIsNearestOfFirstAtKey ==
    ~no_city_lookup =>
        \A k \in Located : ResolvedFields(k) = FieldsOf(UncachedAt(FirstOfKey(k)))

\* C12 witness: two activities whose start coordinates differ and round to
\* one key; the second carries the admin1 found for the first, and a search
\* at its own coordinates finds another.
C12_Witness ==
    /\ ~no_city_lookup
    /\ Len(activities) >= 2
    /\ activities[1].sourceFile[1] = 1 /\ activities[2].sourceFile[1] = 2
    /\ {1, 2} \subseteq Located
    /\ SameKey(1, 2)
    /\ activities[1].lat # activities[2].lat
    /\ ResolvedFields(2) = FieldsOf(UncachedAt(1))
    /\ FieldsOf(UncachedAt(2)) # FieldsOf(UncachedAt(1))

\* ---------------------------------------------------------------- claims: geocoder
\* The distance from the latest query to city i of the loaded list
QueryDist(i) == haversine_km(query.lat.v, query.lon.v, cities[i].lat, cities[i].lon)

\* C4: a lookup never changes an entry the cache already holds; a lookup whose
\* rounded key is already in the cache returns the stored entry, runs no search
\* and leaves the cache as it is; a lookup that misses stores what it returns;
\* a lookup with lat or lon None returns (None, None), runs no search and
\* leaves the cache as it is.
C4_CacheServesFirstResult ==
    [][ /\ \A k \in DOMAIN city_cache :
              k \in DOMAIN city_cache' /\ city_cache'[k] = city_cache[k]
        /\ IF IsNone(query'.lat) \/ IsNone(query'.lon)
           THEN /\ query'.result = <<NoCity, None>>
                /\ ~searched'
                /\ city_cache' = city_cache
           ELSE LET key == <<round3(query'.lat.v), round3(query'.lon.v)>>
                IN IF key \in DOMAIN city_cache
                   THEN /\ query'.result = city_cache[key]
                        /\ ~searched'
                        /\ city_cache' = city_cache
                   ELSE /\ searched'
                        /\ city_cache'[key] = query'.result
      ]_vars

\* C4 witness: a lookup served from the cache with a stored negative result
\* (no city, distance kept) that was stored for another coordinate of the same
\* rounded key: a fresh search at the queried coordinate would differ.
C4_Witness ==
    /\ query.calls = 1
    /\ ~searched
    /\ ~IsNone(query.lat) /\ ~IsNone(query.lon)
    /\ query.result[1] = NoCity /\ ~IsNone(query.result[2])
    /\ query.result # find_nearest_city(query.lat.v, query.lon.v, cities, max_city_km)

\* C5: when the latest lookup ran find_nearest_city, the distance returned is the
\* minimum over the loaded cities; the city returned is the first city of the list
\* at that minimum when the minimum is within max_km (or max_km is None), and
\* None when the minimum exceeds max_km; with no city loaded it is (None, None).
C5_NearestIsFirstMinimum ==
    searched =>
        IF Len(cities) = 0
        THEN query.result = <<NoCity, None>>
        ELSE LET m == CHOOSE d \in {QueryDist(i) : i \in 1..Len(cities)} :
                          \A i \in 1..Len(cities) : d <= QueryDist(i)
                 first == CHOOSE i \in 1..Len(cities) :
                              /\ QueryDist(i) = m
                              /\ \A j \in 1..(i - 1) : QueryDist(j) # m
             IN /\ query.result[2] = Num(m)
                /\ IF ~IsNone(max_city_km) /\ m > max_city_km.v
                   THEN query.result[1] = NoCity
                   ELSE query.result[1] = Some(cities[first])

\* C5 witness: a search over a list whose two cities are at the same, minimal
\* distance from the query and differ; the first one was returned.
C5_Witness ==
    /\ searched
    /\ Len(cities) = 2
    /\ cities[1] # cities[2]
    /\ QueryDist(1) = QueryDist(2)
    /\ query.result[1] = Some(cities[1])

====
